---- MODULE Spec2Model ----
(***************************************************************************)
(* Model of src/brightness_control.py: the capture / detect / set          *)
(* brightness / display / poll loop of main(), with get_hand_landmarks and *)
(* calculate_brightness as operators.                                      *)
(*                                                                         *)
(* Representation of the floating point values of the program:             *)
(*  - a normalised landmark coordinate lm.x is k / NormDen for an integer  *)
(*    k; NormDen is a power of two and the frame sizes are small, so       *)
(*    lm.x * w is exact in binary floating point and int() of it is the    *)
(*    truncation toward zero of k * w / NormDen;                           *)
(*  - the distance hypot(dx, dy) of two integer pixel points is            *)
(*    represented by its square dx^2 + dy^2 (the distance is its square    *)
(*    root); d <= c is then d^2 <= c^2;                                    *)
(*  - int(np.interp(d, [15, 220], [0, 100])) is the greatest integer b     *)
(*    with b <= 100 * (d - 15) / 205, decided on squares.  At the only     *)
(*    distances where the exact value is an integer (15, 56, 97, 138, 179, *)
(*    220) the double computation (100.0/205.0)*(d-15.0)+0.0 gives         *)
(*    exactly 0.0, 20.0, 40.0, 60.0, 80.0 and 100.0, and elsewhere the     *)
(*    exact value is farther from an integer than the rounding error, so   *)
(*    the truncation of the double equals the truncation of the exact      *)
(*    value for every pixel distance of the model.                         *)
(***************************************************************************)
EXTENDS Integers, Sequences, FiniteSets, TLC

VARIABLES
    pc,            \* position of main(): see Init
    capOpened,     \* cap.isOpened()
    capReleased,   \* cap.release() has been called
    handsClosed,   \* the Hands object has been closed
    windowOpen,    \* the preview window exists
    success,       \* first result of the last cap.read()
    frameShape,    \* <<h, w>> of the last frame read
    results,       \* results.multi_hand_landmarks of the last frame
    landmarks,     \* list returned by get_hand_landmarks
    thumb_tip,     \* local of main / argument of calculate_brightness
    index_tip,     \* local of main / argument of calculate_brightness
    brightness,    \* local of main / first result of calculate_brightness
    distance,      \* second result of calculate_brightness, as its square
    key,           \* value returned by the last cv2.waitKey(1)
    printed,       \* number of "Brightness: ..." lines written
    lastPrinted,   \* <<brightness, distance^2>> of the last such line
    failPrinted,   \* "Failed to capture frame. Exiting..." was written
    sbcCalls,      \* number of sbc.set_brightness calls made
    sbcLevel,      \* argument of the last sbc.set_brightness call
    sbcRaised,     \* the last sbc.set_brightness call raised
    framesRead,    \* number of successful cap.read() calls
    detected,      \* number of frames with at least MinLandmarks landmarks
    displayed,     \* number of cv2.imshow calls
    polled         \* number of cv2.waitKey calls

vars == <<pc, capOpened, capReleased, handsClosed, windowOpen, success,
          frameShape, results, landmarks, thumb_tip, index_tip, brightness,
          distance, key, printed, lastPrinted, failPrinted, sbcCalls,
          sbcLevel, sbcRaised, framesRead, detected, displayed, polled>>

(***************************************************************************)
(* Bounds of the model.                                                    *)
(***************************************************************************)
MaxFrames == 2
MaxHands == 2

(***************************************************************************)
(* Constants of the program.                                               *)
(***************************************************************************)
DistMin == 15
DistMax == 220
BrightMin == 0
BrightMax == 100
MinLandmarks == 9
ThumbIdx == 4
IndexIdx == 8
KeyMask == 256
QuitKey == 113

NormDen == 64
HandIds == 0 .. 20
Unset == -1

(***************************************************************************)
(* Inputs: frame sizes, detected hands, key codes, pixel points.           *)
(***************************************************************************)
FrameShapes == { <<320, 320>>, <<240, 320>> }

\* <<thumb tip, index tip>> of a hand, in 1/NormDen of the frame size; a hand
\* partly outside the frame has coordinates below 0 or above NormDen.
TipPairs ==
    { << <<20, 20>>, <<20, 23>> >>,
      << <<20, 20>>, <<20, 44>> >>,
      << <<20, 20>>, <<20, 64>> >>,
      << <<20, -1>>, <<23, 24>> >> }

HandOf(tp) ==
    [ i \in 1 .. Cardinality(HandIds) |->
        IF i - 1 = ThumbIdx THEN tp[1]
        ELSE IF i - 1 = IndexIdx THEN tp[2]
        ELSE << 3 * (i - 1), 2 * (i - 1) + 1 >> ]

Hands == { HandOf(tp) : tp \in TipPairs }

RECURSIVE SeqsUpTo(_, _)
SeqsUpTo(S, n) ==
    IF n = 0 THEN { <<>> }
    ELSE LET shorter == SeqsUpTo(S, n - 1)
         IN  shorter \cup { Append(s, x) : s \in shorter, x \in S }

Detections == SeqsUpTo(Hands, MaxHands)

KeyCodes == { -1, 81, 113, 369 }

ThumbPoints == { <<100, 100>>, <<0, 0>> }
IndexPoints ==
    { <<x, y>> : x \in {0, 9, 100, 112, 232},
                 y \in {0, 12, 15, 16, 56, 100, 115, 116, 156, 197, 217,
                        218, 276, 319, 320, 321, 420} }

(***************************************************************************)
(* get_hand_landmarks                                                      *)
(***************************************************************************)
\* int(v) of the exact quotient a / b, b > 0: truncation toward zero.
TruncDiv(a, b) == IF a >= 0 THEN a \div b ELSE -((-a) \div b)

\* cx, cy = int(lm.x * w), int(lm.y * h), for lm = <<x, y>> in 1/NormDen.
PixelOf(lm, shape) ==
    << TruncDiv(lm[1] * shape[2], NormDen), TruncDiv(lm[2] * shape[1], NormDen) >>

\* The inner loop: enumerate(hand_landmarks.landmark), append (id, cx, cy).
HandEntries(hand, shape) ==
    [ i \in 1 .. Len(hand) |->
        << i - 1, PixelOf(hand[i], shape)[1], PixelOf(hand[i], shape)[2] >> ]

\* Variant: the entries of a hand go before those collected so far.
PrependHand(list, hand, shape) == HandEntries(hand, shape) \o list

\* One pass of the outer loop: the entries of a hand go after those so far.
AppendHand(list, hand, shape) == list \o HandEntries(hand, shape)

RECURSIVE CollectHands(_, _, _)
CollectHands(list, hs, shape) ==
    IF hs = <<>> THEN list
    ELSE CollectHands(AppendHand(list, Head(hs), shape), Tail(hs), shape)

\* results.multi_hand_landmarks is None or empty: the list stays empty.
get_hand_landmarks(shape, multi_hand_landmarks) ==
    CollectHands(<<>>, multi_hand_landmarks, shape)

(***************************************************************************)
(* calculate_brightness                                                    *)
(***************************************************************************)
\* hypot(x2 - x1, y2 - y1), as its square.
DistSq(p, q) == (q[1] - p[1]) * (q[1] - p[1]) + (q[2] - p[2]) * (q[2] - p[2])

\* b <= BrightMin + (BrightMax - BrightMin) * (d - DistMin) / (DistMax - DistMin)
\* for d = sqrt(n) >= DistMin and b >= BrightMin.
InterpAtLeast(n, b) ==
    LET rhs == (b - BrightMin) * (DistMax - DistMin) + DistMin * (BrightMax - BrightMin)
    IN  rhs * rhs <= n * (BrightMax - BrightMin) * (BrightMax - BrightMin)

\* Variant: the search tests b instead of b + 1 and so stops one too high.
RECURSIVE TruncOver(_, _)
TruncOver(n, b) ==
    IF b < BrightMax /\ InterpAtLeast(n, b) THEN TruncOver(n, b + 1) ELSE b

RECURSIVE TruncUp(_, _)
TruncUp(n, b) ==
    IF b < BrightMax /\ InterpAtLeast(n, b + 1) THEN TruncUp(n, b + 1) ELSE b

\* Variant: the brightness range is given as [100, 0].
InterpIntReversed(n) ==
    IF n <= DistMin * DistMin THEN BrightMax
    ELSE IF n >= DistMax * DistMax THEN BrightMin
    ELSE BrightMax - TruncUp(n, BrightMin)

\* int(np.interp(d, [15, 220], [0, 100])) for d = sqrt(n): np.interp returns
\* fp[0] at or below xp[0] and fp[-1] at or above xp[-1].
InterpInt(n) ==
    IF n <= DistMin * DistMin THEN BrightMin
    ELSE IF n >= DistMax * DistMax THEN BrightMax
    ELSE TruncUp(n, BrightMin)

\* <<int(brightness), distance>>
calculate_brightness(thumb, index_finger) ==
    << InterpInt(DistSq(thumb, index_finger)), DistSq(thumb, index_finger) >>

(***************************************************************************)
(* main                                                                    *)
(***************************************************************************)
\* "landmarks and len(landmarks) >= 9"
HandDetected(lms) == lms # <<>> /\ Len(lms) >= MinLandmarks

\* landmarks[k][1:3]
TipAt(lms, k) == << lms[k + 1][2], lms[k + 1][3] >>

\* Variant: any key that was pressed ends the loop.
AnyKeyPressed(k) == (k % KeyMask) # 255

\* cv2.waitKey(1) & 0xFF == ord("q")
QuitPressed(k) == (k % KeyMask) = QuitKey

Init ==
    /\ pc = "loop"
    /\ capOpened \in BOOLEAN
    /\ capReleased = FALSE
    /\ handsClosed = FALSE
    /\ windowOpen = FALSE
    /\ success = FALSE
    /\ frameShape = <<0, 0>>
    /\ results = <<>>
    /\ landmarks = <<>>
    /\ thumb_tip = <<Unset, Unset>>
    /\ index_tip = <<Unset, Unset>>
    /\ brightness = Unset
    /\ distance = Unset
    /\ key = Unset
    /\ printed = 0
    /\ lastPrinted = <<Unset, Unset>>
    /\ failPrinted = FALSE
    /\ sbcCalls = 0
    /\ sbcLevel = Unset
    /\ sbcRaised = FALSE
    /\ framesRead = 0
    /\ detected = 0
    /\ displayed = 0
    /\ polled = 0

\* while cap.isOpened(): the camera is open, the body is entered.
LoopEnter ==
    /\ pc = "loop"
    /\ capOpened
    /\ framesRead < MaxFrames
    /\ pc' = "read"
    /\ UNCHANGED <<capOpened, capReleased, handsClosed, windowOpen, success,
                   frameShape, results, landmarks, thumb_tip, index_tip,
                   brightness, distance, key, printed, lastPrinted,
                   failPrinted, sbcCalls, sbcLevel, sbcRaised, framesRead,
                   detected, displayed, polled>>

\* while cap.isOpened(): the camera is not open, the loop is left.
LoopNotOpened ==
    /\ pc = "loop"
    /\ ~capOpened
    /\ pc' = "release"
    /\ UNCHANGED <<capOpened, capReleased, handsClosed, windowOpen, success,
                   frameShape, results, landmarks, thumb_tip, index_tip,
                   brightness, distance, key, printed, lastPrinted,
                   failPrinted, sbcCalls, sbcLevel, sbcRaised, framesRead,
                   detected, displayed, polled>>

\* success, frame = cap.read() with success true.
ReadFrame ==
    /\ pc = "read"
    /\ \E shape \in FrameShapes : frameShape' = shape
    /\ success' = TRUE
    /\ framesRead' = framesRead + 1
    /\ pc' = "extract"
    /\ UNCHANGED <<capOpened, capReleased, handsClosed, windowOpen, results,
                   landmarks, thumb_tip, index_tip, brightness, distance, key,
                   printed, lastPrinted, failPrinted, sbcCalls, sbcLevel,
                   sbcRaised, detected, displayed, polled>>

\* Variant: a failed read is retried (continue instead of break).
ReadFailsRetries ==
    /\ pc = "read"
    /\ success' = FALSE
    /\ failPrinted' = TRUE
    /\ pc' = "loop"
    /\ UNCHANGED <<capOpened, capReleased, handsClosed, windowOpen,
                   frameShape, results, landmarks, thumb_tip, index_tip,
                   brightness, distance, key, printed, lastPrinted, sbcCalls,
                   sbcLevel, sbcRaised, framesRead, detected, displayed,
                   polled>>

\* success, frame = cap.read() with success false: print and break.
ReadFails ==
    /\ pc = "read"
    /\ success' = FALSE
    /\ failPrinted' = TRUE
    /\ pc' = "release"
    /\ UNCHANGED <<capOpened, capReleased, handsClosed, windowOpen,
                   frameShape, results, landmarks, thumb_tip, index_tip,
                   brightness, distance, key, printed, lastPrinted, sbcCalls,
                   sbcLevel, sbcRaised, framesRead, detected, displayed,
                   polled>>

\* landmarks = get_hand_landmarks(frame, hands)
Extract ==
    /\ pc = "extract"
    /\ \E det \in Detections :
          /\ results' = det
          /\ landmarks' = get_hand_landmarks(frameShape, det)
          /\ detected' = IF HandDetected(get_hand_landmarks(frameShape, det))
                         THEN detected + 1 ELSE detected
    /\ pc' = "branch"
    /\ UNCHANGED <<capOpened, capReleased, handsClosed, windowOpen, success,
                   frameShape, thumb_tip, index_tip, brightness, distance,
                   key, printed, lastPrinted, failPrinted, sbcCalls, sbcLevel,
                   sbcRaised, framesRead, displayed, polled>>

\* Variant: the level set is the mean of the last brightness and the new one.
SetFromHandSmoothed(raised) ==
    /\ pc = "branch"
    /\ HandDetected(landmarks)
    /\ thumb_tip' = TipAt(landmarks, ThumbIdx)
    /\ index_tip' = TipAt(landmarks, IndexIdx)
    /\ brightness' =
          IF brightness = Unset
          THEN calculate_brightness(thumb_tip', index_tip')[1]
          ELSE (brightness + calculate_brightness(thumb_tip', index_tip')[1]) \div 2
    /\ distance' = calculate_brightness(thumb_tip', index_tip')[2]
    /\ printed' = printed + 1
    /\ lastPrinted' = <<brightness', distance'>>
    /\ sbcCalls' = sbcCalls + 1
    /\ sbcLevel' = brightness'
    /\ sbcRaised' = raised
    /\ pc' = IF raised THEN "crashed" ELSE "show"
    /\ UNCHANGED <<capOpened, capReleased, handsClosed, windowOpen, success,
                   frameShape, results, landmarks, key, failPrinted,
                   framesRead, detected, displayed, polled>>

\* Variant: sbc.set_brightness is skipped when the level would not change.
SetFromHandIfChanged(raised) ==
    /\ pc = "branch"
    /\ HandDetected(landmarks)
    /\ thumb_tip' = TipAt(landmarks, ThumbIdx)
    /\ index_tip' = TipAt(landmarks, IndexIdx)
    /\ brightness' = calculate_brightness(thumb_tip', index_tip')[1]
    /\ distance' = calculate_brightness(thumb_tip', index_tip')[2]
    /\ printed' = printed + 1
    /\ lastPrinted' = <<brightness', distance'>>
    /\ sbcCalls' = IF brightness' = sbcLevel THEN sbcCalls ELSE sbcCalls + 1
    /\ sbcLevel' = brightness'
    /\ sbcRaised' = (raised /\ brightness' # sbcLevel)
    /\ pc' = IF raised /\ brightness' # sbcLevel THEN "crashed" ELSE "show"
    /\ UNCHANGED <<capOpened, capReleased, handsClosed, windowOpen, success,
                   frameShape, results, landmarks, key, failPrinted,
                   framesRead, detected, displayed, polled>>

\* Variant: the exception of sbc.set_brightness is caught and the loop goes on.
SetFromHandCaught(raised) ==
    /\ pc = "branch"
    /\ HandDetected(landmarks)
    /\ thumb_tip' = TipAt(landmarks, ThumbIdx)
    /\ index_tip' = TipAt(landmarks, IndexIdx)
    /\ brightness' = calculate_brightness(thumb_tip', index_tip')[1]
    /\ distance' = calculate_brightness(thumb_tip', index_tip')[2]
    /\ printed' = printed + 1
    /\ lastPrinted' = <<brightness', distance'>>
    /\ sbcCalls' = sbcCalls + 1
    /\ sbcLevel' = brightness'
    /\ sbcRaised' = raised
    /\ pc' = "show"
    /\ UNCHANGED <<capOpened, capReleased, handsClosed, windowOpen, success,
                   frameShape, results, landmarks, key, failPrinted,
                   framesRead, detected, displayed, polled>>

\* The body of "if landmarks and len(landmarks) >= 9" up to and including
\* sbc.set_brightness(brightness); raised tells whether that call raised.
SetFromHand(raised) ==
    /\ pc = "branch"
    /\ HandDetected(landmarks)
    /\ thumb_tip' = TipAt(landmarks, ThumbIdx)
    /\ index_tip' = TipAt(landmarks, IndexIdx)
    /\ brightness' = calculate_brightness(thumb_tip', index_tip')[1]
    /\ distance' = calculate_brightness(thumb_tip', index_tip')[2]
    /\ printed' = printed + 1
    /\ lastPrinted' = <<brightness', distance'>>
    /\ sbcCalls' = sbcCalls + 1
    /\ sbcLevel' = brightness'
    /\ sbcRaised' = raised
    /\ pc' = IF raised THEN "crashed" ELSE "show"
    /\ UNCHANGED <<capOpened, capReleased, handsClosed, windowOpen, success,
                   frameShape, results, landmarks, key, failPrinted,
                   framesRead, detected, displayed, polled>>

\* sbc.set_brightness returns; the circles and the line are drawn.
ApplyBrightness == SetFromHand(FALSE)

\* sbc.set_brightness raises; nothing in main catches it.
ApplyRaises == SetFromHand(TRUE)

\* Variant: without a hand the last brightness is applied again.
SkipReapplies ==
    /\ pc = "branch"
    /\ ~HandDetected(landmarks)
    /\ sbcCalls' = sbcCalls + 1
    /\ pc' = "show"
    /\ UNCHANGED <<capOpened, capReleased, handsClosed, windowOpen, success,
                   frameShape, results, landmarks, thumb_tip, index_tip,
                   brightness, distance, key, printed, lastPrinted,
                   failPrinted, sbcLevel, sbcRaised, framesRead, detected,
                   displayed, polled>>

\* The condition of the if is false: the body is skipped.
SkipBrightness ==
    /\ pc = "branch"
    /\ ~HandDetected(landmarks)
    /\ pc' = "show"
    /\ UNCHANGED <<capOpened, capReleased, handsClosed, windowOpen, success,
                   frameShape, results, landmarks, thumb_tip, index_tip,
                   brightness, distance, key, printed, lastPrinted,
                   failPrinted, sbcCalls, sbcLevel, sbcRaised, framesRead,
                   detected, displayed, polled>>

\* cv2.imshow("Hand Gesture Brightness Control", frame)
Show ==
    /\ pc = "show"
    /\ windowOpen' = TRUE
    /\ displayed' = displayed + 1
    /\ pc' = "poll"
    /\ UNCHANGED <<capOpened, capReleased, handsClosed, success, frameShape,
                   results, landmarks, thumb_tip, index_tip, brightness,
                   distance, key, printed, lastPrinted, failPrinted, sbcCalls,
                   sbcLevel, sbcRaised, framesRead, detected, polled>>

\* if cv2.waitKey(1) & 0xFF == ord("q"): break
Poll ==
    /\ pc = "poll"
    /\ \E k \in KeyCodes :
          /\ key' = k
          /\ pc' = IF QuitPressed(k) THEN "release" ELSE "loop"
    /\ polled' = polled + 1
    /\ UNCHANGED <<capOpened, capReleased, handsClosed, windowOpen, success,
                   frameShape, results, landmarks, thumb_tip, index_tip,
                   brightness, distance, printed, lastPrinted, failPrinted,
                   sbcCalls, sbcLevel, sbcRaised, framesRead, detected,
                   displayed>>

\* cap.release(); cv2.destroyAllWindows()
Release ==
    /\ pc = "release"
    /\ capOpened' = FALSE
    /\ capReleased' = TRUE
    /\ windowOpen' = FALSE
    /\ pc' = "done"
    /\ UNCHANGED <<handsClosed, success, frameShape, results, landmarks,
                   thumb_tip, index_tip, brightness, distance, key, printed,
                   lastPrinted, failPrinted, sbcCalls, sbcLevel, sbcRaised,
                   framesRead, detected, displayed, polled>>

Next ==
    \/ LoopEnter
    \/ LoopNotOpened
    \/ ReadFrame
    \/ ReadFails
    \/ Extract
    \/ ApplyBrightness
    \/ ApplyRaises
    \/ SkipBrightness
    \/ Show
    \/ Poll
    \/ Release

Spec == Init /\ [][Next]_vars

(***************************************************************************)
(* calculate_brightness on its own: called again and again on pixel points *)
(* drawn from ThumbPoints and IndexPoints.                                 *)
(***************************************************************************)
InitCalc ==
    /\ pc = "call"
    /\ thumb_tip \in ThumbPoints
    /\ index_tip \in IndexPoints
    /\ brightness = Unset
    /\ distance = Unset
    /\ capOpened = FALSE
    /\ capReleased = FALSE
    /\ handsClosed = FALSE
    /\ windowOpen = FALSE
    /\ success = FALSE
    /\ frameShape = <<0, 0>>
    /\ results = <<>>
    /\ landmarks = <<>>
    /\ key = Unset
    /\ printed = 0
    /\ lastPrinted = <<Unset, Unset>>
    /\ failPrinted = FALSE
    /\ sbcCalls = 0
    /\ sbcLevel = Unset
    /\ sbcRaised = FALSE
    /\ framesRead = 0
    /\ detected = 0
    /\ displayed = 0
    /\ polled = 0

\* brightness, distance = calculate_brightness(thumb_tip, index_tip)
CalculateCall ==
    /\ pc = "call"
    /\ brightness' = calculate_brightness(thumb_tip, index_tip)[1]
    /\ distance' = calculate_brightness(thumb_tip, index_tip)[2]
    /\ pc' = "returned"
    /\ UNCHANGED <<capOpened, capReleased, handsClosed, windowOpen, success,
                   frameShape, results, landmarks, thumb_tip, index_tip, key,
                   printed, lastPrinted, failPrinted, sbcCalls, sbcLevel,
                   sbcRaised, framesRead, detected, displayed, polled>>

\* The arguments of the next call; the last results stay until it returns.
NextArguments ==
    /\ pc = "returned"
    /\ \E t \in ThumbPoints, i \in IndexPoints :
          /\ thumb_tip' = t
          /\ index_tip' = i
    /\ pc' = "call"
    /\ UNCHANGED <<capOpened, capReleased, handsClosed, windowOpen, success,
                   frameShape, results, landmarks, brightness, distance, key,
                   printed, lastPrinted, failPrinted, sbcCalls, sbcLevel,
                   sbcRaised, framesRead, detected, displayed, polled>>

NextCalc == CalculateCall \/ NextArguments

SpecCalc == InitCalc /\ [][NextCalc]_vars

(***************************************************************************)
(* The two states of the control loop.                                     *)
(***************************************************************************)
Running == pc \in {"loop", "read", "extract", "branch", "show", "poll"}
Terminated == pc \in {"release", "done", "crashed"}

\* The frame being processed is one whose brightness update has been made.
UpdatedThisFrame == pc \in {"show", "poll", "crashed"} /\ HandDetected(landmarks)

(***************************************************************************)
(* Properties                                                              *)
(***************************************************************************)

\* C1: in an iteration whose landmark list is empty or shorter than 9,
\* sbc.set_brightness is not called and no diagnostic line is written, and
\* the iteration goes on to display the frame and to poll the key; the
\* number of brightness calls never exceeds the number of frames with at
\* least 9 landmarks.
C1_NoDetectionNoCall ==
    /\ [](sbcCalls <= detected /\ printed <= detected)
    /\ [][ (pc \in {"branch", "show", "poll"} /\ ~(Len(landmarks) >= 9))
           => /\ sbcCalls' = sbcCalls
              /\ printed' = printed
              /\ sbcLevel' = sbcLevel
              /\ (pc = "branch" => pc' = "show")
              /\ (pc = "show" => pc' = "poll" /\ displayed' = displayed + 1)
              /\ (pc = "poll" => pc' \in {"loop", "release"} /\ polled' = polled + 1)
         ]_vars

C1_Witness ==
    /\ pc = "loop"
    /\ framesRead = 2
    /\ landmarks = <<>>
    /\ sbcCalls = 1
    /\ printed = 1
    /\ displayed = 2
    /\ polled = 2

\* C2: in every terminated state, reached by the quit key, a failed read, a
\* camera that is not open or an exception of the loop body, the camera
\* handle and the detector handle are both released.
C2_AllExitsRelease ==
    pc \in {"done", "crashed"} => capReleased /\ handsClosed

\* C3 (as claimed): the loop leaves RUNNING only on a failed read or on the
\* quit key seen by the poll, and TERMINATED is absorbing.
C3_OnlyTwoExits ==
    [][ /\ (Running /\ Terminated')
           => \/ (pc = "read" /\ ~success')
              \/ (pc = "poll" /\ key' % 256 = 113)
        /\ Terminated => (Terminated' /\ framesRead' = framesRead /\ sbcCalls' = sbcCalls)
      ]_vars

\* C3 (amended): the loop leaves RUNNING only on a failed read, on a poll
\* whose key code has the low byte of 'q', on a camera that is not open when
\* the loop condition is evaluated, or on an exception raised by
\* sbc.set_brightness; TERMINATED is absorbing: no frame is read and no
\* brightness call is made after it.
C3_FourExits ==
    [][ /\ (Running /\ Terminated')
           => \/ (pc = "read" /\ ~success')
              \/ (pc = "poll" /\ key' % 256 = 113)
              \/ (pc = "loop" /\ ~capOpened)
              \/ (pc = "branch" /\ sbcRaised' /\ sbcCalls' = sbcCalls + 1)
        /\ (pc = "poll" /\ Running') => key' % 256 # 113
        /\ (pc = "loop" /\ Running') => capOpened
        /\ Terminated => (Terminated' /\ framesRead' = framesRead /\ sbcCalls' = sbcCalls)
      ]_vars

C3_Witness ==
    /\ pc = "done"
    /\ framesRead = 2
    /\ key = 369
    /\ sbcCalls = 2

\* C4: a failed read ends the loop in the same iteration: nothing is
\* extracted, set, displayed or polled for it and no read is retried; a
\* failure of the first read leaves the number of brightness calls at zero.
C4_FailureStopsAtOnce ==
    /\ [](failPrinted => /\ pc \in {"release", "done"}
                         /\ ~success
                         /\ displayed = framesRead
                         /\ polled = framesRead
                         /\ (framesRead = 0 => sbcCalls = 0))
    /\ [][ ((pc = "read" /\ ~success') \/ failPrinted)
           => /\ pc' \in {"release", "done"}
              /\ UNCHANGED <<framesRead, results, landmarks, detected,
                             sbcCalls, sbcLevel, printed, displayed, polled>>
         ]_vars

C4_Witness ==
    /\ pc = "done"
    /\ failPrinted
    /\ framesRead = 0
    /\ sbcCalls = 0

\* C5: calculate_brightness returns 0 when the distance of the two points is
\* at most 15 (identical points included) and 100 when it is at least 220.
C5_EdgesClamp ==
    pc = "returned"
    => LET dx == index_tip[1] - thumb_tip[1]
           dy == index_tip[2] - thumb_tip[2]
       IN  /\ (dx * dx + dy * dy <= 15 * 15 => brightness = 0)
           /\ (dx * dx + dy * dy >= 220 * 220 => brightness = 100)
           /\ (thumb_tip = <<100, 100>> /\ index_tip = <<100, 115>> => brightness = 0)
           /\ (thumb_tip = <<100, 100>> /\ index_tip = <<100, 320>> => brightness = 100)

C5_Witness ==
    /\ pc = "returned"
    /\ thumb_tip = <<100, 100>>
    /\ index_tip = <<100, 320>>
    /\ distance = 220 * 220
    /\ brightness = 100

\* C6: every value passed to sbc.set_brightness is an integer from 0 to 100,
\* and the value set in a frame is decided by the thumb tip and index tip
\* entries of that frame's landmark list alone.
C6_LevelInRangeFromFrame ==
    /\ (sbcCalls > 0 => sbcLevel \in 0 .. 100)
    /\ UpdatedThisFrame
       => LET p == landmarks[5]
              q == landmarks[9]
              n == (q[2] - p[2]) * (q[2] - p[2]) + (q[3] - p[3]) * (q[3] - p[3])
          IN  /\ (n <= 225 => sbcLevel = 0)
              /\ (n >= 48400 => sbcLevel = 100)
              /\ (n > 225 /\ n < 48400
                  => /\ (205 * sbcLevel + 1500) * (205 * sbcLevel + 1500) <= 10000 * n
                     /\ (205 * (sbcLevel + 1) + 1500) * (205 * (sbcLevel + 1) + 1500)
                           > 10000 * n)

C6_Witness ==
    /\ pc = "show"
    /\ framesRead = 2
    /\ sbcCalls = 2
    /\ lastPrinted[1] = 51
    /\ sbcLevel = 51
    /\ HandDetected(landmarks)

\* C7: calculate_brightness is non-decreasing in the distance, and for a
\* distance d in [15, 220] its result is 100 * (d - 15) / 205 truncated to an
\* integer.
C7_MonotoneTruncated ==
    /\ [](pc = "returned" /\ distance >= 225 /\ distance <= 48400
          => /\ (205 * brightness + 1500) * (205 * brightness + 1500)
                   <= 10000 * distance
             /\ brightness < 100
                => (205 * (brightness + 1) + 1500) * (205 * (brightness + 1) + 1500)
                      > 10000 * distance)
    /\ [][ (pc = "call" /\ pc' = "returned" /\ distance # Unset)
           => /\ (distance <= distance' => brightness <= brightness')
              /\ (distance >= distance' => brightness >= brightness')
         ]_vars

C7_Witness ==
    /\ pc = "returned"
    /\ thumb_tip = <<100, 100>>
    /\ index_tip = <<100, 218>>
    /\ brightness = 50

\* C8: in every iteration with a frame read and at least 9 landmarks exactly
\* one diagnostic line is written and sbc.set_brightness is called exactly
\* once, with the integer that was written, before the frame is displayed
\* and the key is polled.
C8_OncePerDetectedFrame ==
    /\ (pc = "branch" /\ Len(landmarks) >= 9)
       => (printed = detected - 1 /\ sbcCalls = detected - 1)
    /\ ~(pc = "branch" /\ Len(landmarks) >= 9)
       => (printed = detected /\ sbcCalls = detected)
    /\ sbcCalls > 0 => lastPrinted[1] = sbcLevel
    /\ pc \in {"branch", "show"}
       => (displayed = framesRead - 1 /\ polled = framesRead - 1)
    /\ pc = "poll" => (displayed = framesRead /\ polled = framesRead - 1)

C8_Witness ==
    /\ pc = "release"
    /\ key = 113
    /\ framesRead = 1
    /\ detected = 1
    /\ printed = 1
    /\ sbcCalls = 1
    /\ sbcLevel = 100

\* C9: when sbc.set_brightness fails the loop does not go on: the frame is
\* not displayed, the key is not polled, no later frame is read and no later
\* brightness call is made.
C9_SetFailureIsFatal ==
    /\ [](sbcRaised => /\ pc = "crashed"
                       /\ displayed = framesRead - 1
                       /\ polled = framesRead - 1)
    /\ [][ sbcRaised => UNCHANGED <<pc, framesRead, sbcCalls, displayed, polled>> ]_vars

C9_Witness ==
    /\ pc = "crashed"
    /\ sbcRaised
    /\ framesRead = 2
    /\ displayed = 1
    /\ polled = 1
    /\ sbcCalls = 2

\* C10: the points given to calculate_brightness are landmarks 4 and 8 of
\* the first detected hand, however many hands are detected: entries 4 and
\* 8 of the list carry the identifiers 4 and 8, and a later hand has no
\* effect on the brightness.
C10_FirstHandTips ==
    UpdatedThisFrame
    => /\ landmarks[5][1] = 4
       /\ landmarks[9][1] = 8
       /\ Len(landmarks) = 21 * Len(results)
       /\ thumb_tip = PixelOf(results[1][5], frameShape)
       /\ index_tip = PixelOf(results[1][9], frameShape)
       /\ sbcLevel = calculate_brightness(PixelOf(results[1][5], frameShape),
                                          PixelOf(results[1][9], frameShape))[1]

C10_Witness ==
    /\ pc = "show"
    /\ Len(results) = 2
    /\ results[1][9] = <<20, 23>>
    /\ results[2][9] = <<20, 64>>
    /\ sbcLevel = 0

====
